---- MODULE Spec2Model ----
(***************************************************************************)
(* Trucking Control Tower (src/app.py): the session store of trips and     *)
(* slips, the form pages that append to it, the trip calculator page, and  *)
(* the profitability function calculate_trip_profitability.                *)
(*                                                                         *)
(* Numbers.  The program computes in Python floats.  Quantities (km, tons, *)
(* litres) are modelled as naturals and money as a natural number of       *)
(* cents, so that products, sums and differences are exact; a quotient is  *)
(* a normalised fraction [num, den], and a division by zero is the value   *)
(* ZeroDivisionError.                                                      *)
(*                                                                         *)
(* Identifiers.  uuid.uuid4() returns an identifier distinct from every    *)
(* one issued before: the n-th trip gets <<"trip", n>> and the n-th slip   *)
(* of a kind <<kind, n>>, so identifiers are pairwise distinct.            *)
(*                                                                         *)
(* Left out: the created_at timestamps (datetime.now()), which nothing     *)
(* reads but the display of view_slips.                                    *)
(***************************************************************************)
EXTENDS Integers, Sequences, FiniteSets, TLC

VARIABLES trips, loading_slips, offloading_slips, fuel_slips, ui, result

vars == <<trips, loading_slips, offloading_slips, fuel_slips, ui, result>>

stores == <<trips, loading_slips, offloading_slips, fuel_slips>>

(* ---------------------------- bounds ----------------------------------- *)

MaxTrips == 2

MaxSlips == 2

(* ------------------------ input domains -------------------------------- *)

TruckOptions == {"TRK-001", "TRK-002", "TRK-003"}

TruckInputs == {"TRK-001", "TRK-002"}

NewTripTruckInputs == {"TRK-002"}

DriverInputs == {"", "DRV-001"}

RouteInputs == {"", "JHB to DBN"}

DateInputs == {"2024-01-15"}

TextInputs == {"", "x"}

OptionalTextInputs == {""}

NoFile == [tag |-> "None"]

FileInputs == {NoFile}

QuantityInputs == {0, 2}

DroppedInputs == {0, 1, 2}

PriceInputs == {0, 3}

DistanceInputs == {0, 2}

TonnageInputs == {0, 3}

RateInputs == {0, 250}

EngineDistances == {0, 2}

EngineQuantities == {1, 2}

EnginePrices == {0, 3}

(* --------------------------- values ------------------------------------ *)

None == [tag |-> "None"]

ZeroDivisionError == [tag |-> "ZeroDivisionError"]

Abs(x) == IF x < 0 THEN -x ELSE x

RECURSIVE GCD(_, _)
GCD(a, b) == IF b = 0 THEN a ELSE GCD(b, a % b)

Frac(n, d) ==
    LET g == GCD(Abs(n), d)
    IN  [num |-> n \div g, den |-> d \div g]

\* Python's a / b on numbers
Div(a, b) == IF b = 0 THEN ZeroDivisionError ELSE Frac(a, b)

\* Python's x * k where x is the value of a quotient
MulInt(x, k) ==
    IF x = ZeroDivisionError THEN ZeroDivisionError ELSE Frac(x.num * k, x.den)

RECURSIVE SumSeq(_)
SumSeq(s) == IF s = <<>> THEN 0 ELSE Head(s) + SumSeq(Tail(s))

(* ------------------------ program constants ---------------------------- *)

SAMPLE_COST_DATA ==
    [t \in TruckOptions |->
        CASE t = "TRK-001" -> [cost_per_km |-> 694, fixed_monthly |-> 2140000, fuel_lper100km |-> 45]
          [] t = "TRK-002" -> [cost_per_km |-> 712, fixed_monthly |-> 2280000, fuel_lper100km |-> 48]
          [] t = "TRK-003" -> [cost_per_km |-> 678, fixed_monthly |-> 2090000, fuel_lper100km |-> 42]]

\* SAMPLE_COST_DATA.get(truck_id, SAMPLE_COST_DATA['TRK-001'])
TruckCost(truck_id) ==
    IF truck_id \in DOMAIN SAMPLE_COST_DATA
    THEN SAMPLE_COST_DATA[truck_id]
    ELSE SAMPLE_COST_DATA["TRK-001"]

rate_per_ton_km == 250

(* --------------------------- helpers ----------------------------------- *)

\* str(uuid.uuid4()) for the next record of a collection
uuid4(kind, collection) == <<kind, Len(collection) + 1>>

save_image_as_base64(uploaded_file) ==
    IF uploaded_file # NoFile
    THEN [tag |-> "base64", of |-> uploaded_file]
    ELSE None

\* list.append
ListAppendReplace(list, rec) == <<rec>>

ListAppend(list, rec) == Append(list, rec)

NewTripWrongDistance(trip_id, truck_id, driver_id, route, date_selected) ==
    [id |-> trip_id, truck_id |-> truck_id, driver_id |-> driver_id,
     route |-> route, date |-> date_selected, status |-> "Active",
     distance_km |-> 1, total_cost |-> 0, revenue |-> 0, profit |-> 0]

NewTrip(trip_id, truck_id, driver_id, route, date_selected) ==
    [id |-> trip_id, truck_id |-> truck_id, driver_id |-> driver_id,
     route |-> route, date |-> date_selected, status |-> "Active",
     distance_km |-> 0, total_cost |-> 0, revenue |-> 0, profit |-> 0]

IsActive(trip) == trip.status = "Active"

get_active_trips == SelectSeq(trips, IsActive)

\* active_trips[selected_trip_idx]['id'], selected_trip_idx counted from 0
SelectedTripIdIsIndex(active_trips, selected_trip_idx) == <<"trip", selected_trip_idx>>

SelectedTripId(active_trips, selected_trip_idx) ==
    active_trips[selected_trip_idx + 1].id

(* ------------------- calculate_trip_profitability ---------------------- *)

FindTrip(ts, trip_id) ==
    LET found == SelectSeq(ts, LAMBDA t : t.id = trip_id)
    IN  IF found = <<>> THEN None ELSE Head(found)

AllOf(slips, trip_id) == slips

SlipsOfTrip(slips, trip_id) == SelectSeq(slips, LAMBDA s : s.trip_id = trip_id)

TonnagesCollected(slips) == [i \in 1..Len(slips) |-> slips[i].tonnage_collected]

TonnagesDropped(slips) == [i \in 1..Len(slips) |-> slips[i].tonnage_dropped]

TotalCosts(slips) == [i \in 1..Len(slips) |-> slips[i].total_cost]

total_tonnage_loaded(trip_id) ==
    SumSeq(TonnagesCollected(SlipsOfTrip(loading_slips, trip_id)))

total_tonnage_delivered(trip_id) ==
    SumSeq(TonnagesDropped(SlipsOfTrip(offloading_slips, trip_id)))

total_fuel_cost(trip_id) ==
    SumSeq(TotalCosts(SlipsOfTrip(fuel_slips, trip_id)))

ComputableEither(distance_km, tonnage_delivered) ==
    distance_km > 0 \/ tonnage_delivered > 0

Computable(distance_km, tonnage_delivered) ==
    distance_km > 0 /\ tonnage_delivered > 0

TripTotalCostNoFuel(variable_cost, fuel_cost) == variable_cost

TripTotalCost(variable_cost, fuel_cost) == variable_cost + fuel_cost

calculate_trip_profitability(trip_id) ==
    LET trip == FindTrip(trips, trip_id)
    IN  IF trip = None THEN None
        ELSE
          LET loaded     == total_tonnage_loaded(trip_id)
              delivered  == total_tonnage_delivered(trip_id)
              fuel       == total_fuel_cost(trip_id)
              truck_cost == TruckCost(trip.truck_id)
          IN  IF Computable(trip.distance_km, delivered)
              THEN
                LET revenue       == trip.distance_km * delivered * rate_per_ton_km
                    variable_cost == trip.distance_km * truck_cost.cost_per_km
                    total_cost    == TripTotalCost(variable_cost, fuel)
                    profit        == revenue - total_cost
                IN  [revenue |-> revenue, total_cost |-> total_cost,
                     profit |-> profit, tonnage_delivered |-> delivered,
                     fuel_cost |-> fuel]
              ELSE None

(* --------------------------- dashboard --------------------------------- *)

TripProfits(ts) == [i \in 1..Len(ts) |-> ts[i].profit]

DashboardView ==
    [page            |-> "Dashboard",
     active_trips    |-> Len(get_active_trips),
     total_slips     |-> Len(loading_slips) + Len(fuel_slips),
     completed_trips |-> Len(SelectSeq(trips, LAMBDA t : t.status = "Completed")),
     total_profit    |-> SumSeq(TripProfits(trips))]

show_dashboard ==
    /\ ui' = DashboardView
    /\ UNCHANGED <<trips, loading_slips, offloading_slips, fuel_slips, result>>

(* -------------------------- create trip -------------------------------- *)

create_trip_page(truck_id, driver_id, route, trip_date) ==
    LET form == [truck_id |-> truck_id, driver_id |-> driver_id,
                 route |-> route, trip_date |-> trip_date]
    IN  IF driver_id # "" /\ route # ""
        THEN /\ Len(trips) < MaxTrips
             /\ trips' = ListAppend(trips, NewTrip(uuid4("trip", trips), truck_id, driver_id, route, trip_date))
             /\ ui' = [page |-> "Create Trip", form |-> form, message |-> "success"]
             /\ UNCHANGED <<loading_slips, offloading_slips, fuel_slips, result>>
        ELSE /\ ui' = [page |-> "Create Trip", form |-> form, message |-> "error"]
             /\ UNCHANGED <<trips, loading_slips, offloading_slips, fuel_slips, result>>

(* --------------------------- slip pages -------------------------------- *)

NoActiveTrips(page) ==
    /\ get_active_trips = <<>>
    /\ ui' = [page |-> page, message |-> "warning"]
    /\ UNCHANGED <<trips, loading_slips, offloading_slips, fuel_slips, result>>

LoadingValidZeroAllowed(tonnage_collected, loading_point, client) ==
    tonnage_collected >= 0 /\ loading_point # "" /\ client # ""

LoadingValid(tonnage_collected, loading_point, client) ==
    tonnage_collected > 0 /\ loading_point # "" /\ client # ""

add_loading_slip(selected_trip_idx, tonnage_collected, loading_point, client, ticket_number, slip_photo) ==
    LET active_trips == get_active_trips
        form == [selected_trip_idx |-> selected_trip_idx,
                 tonnage_collected |-> tonnage_collected,
                 loading_point |-> loading_point, client |-> client,
                 ticket_number |-> ticket_number, slip_photo |-> slip_photo]
    IN  /\ active_trips # <<>>
        /\ selected_trip_idx \in 0..(Len(active_trips) - 1)
        /\ IF LoadingValid(tonnage_collected, loading_point, client)
           THEN /\ Len(loading_slips) + Len(offloading_slips) + Len(fuel_slips) < MaxSlips
                   /\ loading_slips' = ListAppend(loading_slips,
                       [id |-> uuid4("loading", loading_slips),
                        trip_id |-> SelectedTripId(active_trips, selected_trip_idx),
                        tonnage_collected |-> tonnage_collected,
                        loading_point |-> loading_point,
                        client |-> client,
                        ticket_number |-> ticket_number,
                        photo |-> save_image_as_base64(slip_photo)])
                /\ ui' = [page |-> "Loading Slip", form |-> form, message |-> "success"]
                /\ UNCHANGED <<trips, offloading_slips, fuel_slips, result>>
           ELSE /\ ui' = [page |-> "Loading Slip", form |-> form, message |-> "error"]
                /\ UNCHANGED <<trips, loading_slips, offloading_slips, fuel_slips, result>>

OffloadingValid(tonnage_dropped, drop_point, receiver) ==
    tonnage_dropped > 0 /\ drop_point # "" /\ receiver # ""

add_offloading_slip(selected_trip_idx, tonnage_dropped, drop_point, receiver, signed_by, slip_photo) ==
    LET active_trips == get_active_trips
        form == [selected_trip_idx |-> selected_trip_idx,
                 tonnage_dropped |-> tonnage_dropped,
                 drop_point |-> drop_point, receiver |-> receiver,
                 signed_by |-> signed_by, slip_photo |-> slip_photo]
    IN  /\ active_trips # <<>>
        /\ selected_trip_idx \in 0..(Len(active_trips) - 1)
        /\ IF OffloadingValid(tonnage_dropped, drop_point, receiver)
           THEN /\ Len(loading_slips) + Len(offloading_slips) + Len(fuel_slips) < MaxSlips
                   /\ offloading_slips' = ListAppend(offloading_slips,
                       [id |-> uuid4("offloading", offloading_slips),
                        trip_id |-> SelectedTripId(active_trips, selected_trip_idx),
                        tonnage_dropped |-> tonnage_dropped,
                        drop_point |-> drop_point,
                        receiver |-> receiver,
                        signed_by |-> signed_by,
                        photo |-> save_image_as_base64(slip_photo)])
                /\ ui' = [page |-> "Offloading Slip", form |-> form, message |-> "success"]
                /\ UNCHANGED <<trips, loading_slips, fuel_slips, result>>
           ELSE /\ ui' = [page |-> "Offloading Slip", form |-> form, message |-> "error"]
                /\ UNCHANGED <<trips, loading_slips, offloading_slips, fuel_slips, result>>

FuelValid(litres, fuel_station) == litres > 0 /\ fuel_station # ""

\* total_cost = litres * price_per_litre
FuelTotalCostPriceOnly(litres, price_per_litre) == price_per_litre

FuelTotalCost(litres, price_per_litre) == litres * price_per_litre

add_fuel_slip(selected_trip_idx, litres, price_per_litre, fuel_station, slip_photo) ==
    LET active_trips == get_active_trips
        total_cost == FuelTotalCost(litres, price_per_litre)
        form == [selected_trip_idx |-> selected_trip_idx, litres |-> litres,
                 price_per_litre |-> price_per_litre,
                 fuel_station |-> fuel_station, total_cost |-> total_cost,
                 slip_photo |-> slip_photo]
    IN  /\ active_trips # <<>>
        /\ selected_trip_idx \in 0..(Len(active_trips) - 1)
        /\ IF FuelValid(litres, fuel_station)
           THEN /\ Len(loading_slips) + Len(offloading_slips) + Len(fuel_slips) < MaxSlips
                   /\ fuel_slips' = ListAppend(fuel_slips,
                       [id |-> uuid4("fuel", fuel_slips),
                        trip_id |-> SelectedTripId(active_trips, selected_trip_idx),
                        litres |-> litres,
                        price_per_litre |-> price_per_litre,
                        total_cost |-> total_cost,
                        station |-> fuel_station,
                        photo |-> save_image_as_base64(slip_photo)])
                /\ ui' = [page |-> "Fuel Slip", form |-> form, message |-> "success"]
                /\ UNCHANGED <<trips, loading_slips, offloading_slips, result>>
           ELSE /\ ui' = [page |-> "Fuel Slip", form |-> form, message |-> "error"]
                /\ UNCHANGED <<trips, loading_slips, offloading_slips, fuel_slips, result>>

(* ------------------------- trip calculator ----------------------------- *)

MarginUnguarded(profit, revenue) == MulInt(Div(profit, revenue), 100)

\* (profit / revenue) * 100 if revenue > 0 else 0
Margin(profit, revenue) ==
    IF revenue > 0 THEN MulInt(Div(profit, revenue), 100) ELSE Frac(0, 1)

BreakevenUnguarded(cost_per_km, rate) == Div(cost_per_km, rate)

\* if rate_per_ton_km > 0: breakeven_tonnage = cost_per_km / rate_per_ton_km
Breakeven(cost_per_km, rate) ==
    IF rate > 0 THEN Div(cost_per_km, rate) ELSE None

trip_calculator(truck_id, distance, tonnage, rate) ==
    LET truck_cost  == TruckCost(truck_id)
        cost_per_km == truck_cost.cost_per_km
        inputs == [truck_id |-> truck_id, distance |-> distance,
                   tonnage |-> tonnage, rate_per_ton_km |-> rate,
                   cost_per_km |-> cost_per_km]
        analysis ==
            IF distance > 0 /\ tonnage > 0
            THEN LET revenue    == distance * tonnage * rate
                     total_cost == distance * cost_per_km
                     profit     == revenue - total_cost
                     margin     == Margin(profit, revenue)
                 IN  [revenue |-> revenue, total_cost |-> total_cost,
                      profit |-> profit, margin |-> margin,
                      breakeven_tonnage |-> Breakeven(cost_per_km, rate),
                      verdict |-> IF profit > 0 THEN "profitable" ELSE "loss"]
            ELSE None
    IN  /\ ui' = [page |-> "Trip Calculator", inputs |-> inputs, analysis |-> analysis]
        /\ UNCHANGED <<trips, loading_slips, offloading_slips, fuel_slips, result>>

(* --------------------------- view slips -------------------------------- *)

view_slips ==
    /\ ui' = [page |-> "View Slips",
              loading |-> Len(loading_slips),
              offloading |-> Len(offloading_slips),
              fuel |-> Len(fuel_slips)]
    /\ UNCHANGED <<trips, loading_slips, offloading_slips, fuel_slips, result>>

(* ------------------------- the application ----------------------------- *)

Init ==
    /\ trips = <<>>
    /\ loading_slips = <<>>
    /\ offloading_slips = <<>>
    /\ fuel_slips = <<>>
    /\ result = None
    /\ ui = [page |-> "Dashboard", active_trips |-> 0, total_slips |-> 0,
             completed_trips |-> 0, total_profit |-> 0]

CreateTripStep ==
    \E truck_id \in NewTripTruckInputs, driver_id \in DriverInputs,
       route \in RouteInputs, trip_date \in DateInputs :
        create_trip_page(truck_id, driver_id, route, trip_date)

LoadingSlipStep ==
    \/ NoActiveTrips("Loading Slip")
    \/ \E idx \in 0..(MaxTrips - 1), q \in QuantityInputs, lp \in TextInputs,
          c \in TextInputs, tk \in OptionalTextInputs, ph \in FileInputs :
           add_loading_slip(idx, q, lp, c, tk, ph)

OffloadingSlipStep ==
    \/ NoActiveTrips("Offloading Slip")
    \/ \E idx \in 0..(MaxTrips - 1), q \in DroppedInputs, dp \in TextInputs,
          r \in TextInputs, sb \in OptionalTextInputs, ph \in FileInputs :
           add_offloading_slip(idx, q, dp, r, sb, ph)

FuelSlipStep ==
    \/ NoActiveTrips("Fuel Slip")
    \/ \E idx \in 0..(MaxTrips - 1), l \in QuantityInputs, p \in PriceInputs,
          st \in TextInputs, ph \in FileInputs :
           add_fuel_slip(idx, l, p, st, ph)

TripCalculatorStep ==
    \E truck_id \in TruckInputs, d \in DistanceInputs, t \in TonnageInputs,
       r \in RateInputs :
        trip_calculator(truck_id, d, t, r)

Next ==
    \/ show_dashboard
    \/ CreateTripStep
    \/ LoadingSlipStep
    \/ OffloadingSlipStep
    \/ FuelSlipStep
    \/ TripCalculatorStep
    \/ view_slips

Spec == Init /\ [][Next]_vars

(* ------------- calculate_trip_profitability as a function -------------- *)
(* No page calls calculate_trip_profitability.  It is checked as a         *)
(* function of the session store it reads: EngineInit draws a store (the   *)
(* trips' distance_km included, which the function reads from the trip     *)
(* record) and Calculate applies the function to a trip id.                *)

EngineTrip(i, truck_id, distance_km) ==
    [NewTrip(i, truck_id, "DRV-001", "JHB to DBN", "2024-01-15")
        EXCEPT !.distance_km = distance_km]

EngineInit ==
    \E nt \in 1..MaxTrips :
    \E nl \in 0..MaxSlips, no \in 0..MaxSlips, nf \in 0..MaxSlips :
      /\ nl + no + nf <= MaxSlips
      /\ \E tr \in [1..nt -> TruckInputs \X EngineDistances],
            ls \in [1..nl -> (1..nt) \X {2}],
            os \in [1..no -> (1..nt) \X EngineQuantities],
            fs \in [1..nf -> (1..nt) \X {2} \X EnginePrices] :
           /\ trips = [i \in 1..nt |-> EngineTrip(<<"trip", i>>, tr[i][1], tr[i][2])]
           /\ loading_slips =
                [i \in 1..nl |->
                    [id |-> <<"loading", i>>, trip_id |-> <<"trip", ls[i][1]>>,
                     tonnage_collected |-> ls[i][2], loading_point |-> "x",
                     client |-> "x", ticket_number |-> "",
                     photo |-> save_image_as_base64(NoFile)]]
           /\ offloading_slips =
                [i \in 1..no |->
                    [id |-> <<"offloading", i>>, trip_id |-> <<"trip", os[i][1]>>,
                     tonnage_dropped |-> os[i][2], drop_point |-> "x",
                     receiver |-> "x", signed_by |-> "",
                     photo |-> save_image_as_base64(NoFile)]]
           /\ fuel_slips =
                [i \in 1..nf |->
                    [id |-> <<"fuel", i>>, trip_id |-> <<"trip", fs[i][1]>>,
                     litres |-> fs[i][2], price_per_litre |-> fs[i][3],
                     total_cost |-> FuelTotalCost(fs[i][2], fs[i][3]),
                     station |-> "x",
                     photo |-> save_image_as_base64(NoFile)]]
           /\ result = None
           /\ ui = [page |-> "Dashboard", active_trips |-> nt,
                    total_slips |-> nl + nf, completed_trips |-> 0,
                    total_profit |-> 0]

Calculate ==
    \E trip_id \in {<<"trip", n>> : n \in 1..(MaxTrips + 1)} :
        /\ result' = [trip_id |-> trip_id,
                      returned |-> calculate_trip_profitability(trip_id)]
        /\ UNCHANGED <<trips, loading_slips, offloading_slips, fuel_slips, ui>>

EngineNext == Calculate

SpecEngine == EngineInit /\ [][EngineNext]_vars

(* ============================ properties =============================== *)

\* the sum of the amounts of the first n entries of slips whose trip_id is
\* trip_id, counted entry by entry
RECURSIVE MatchSum(_, _, _, _)
MatchSum(trip_ids, amounts, trip_id, n) ==
    IF n = 0 THEN 0
    ELSE MatchSum(trip_ids, amounts, trip_id, n - 1)
         + (IF trip_ids[n] = trip_id THEN amounts[n] ELSE 0)

TripIdsOf(slips) == [i \in 1..Len(slips) |-> slips[i].trip_id]

LoadedFor(trip_id) ==
    MatchSum(TripIdsOf(loading_slips), TonnagesCollected(loading_slips),
             trip_id, Len(loading_slips))

DeliveredFor(trip_id) ==
    MatchSum(TripIdsOf(offloading_slips), TonnagesDropped(offloading_slips),
             trip_id, Len(offloading_slips))

FuelCostFor(trip_id) ==
    MatchSum(TripIdsOf(fuel_slips), TotalCosts(fuel_slips),
             trip_id, Len(fuel_slips))

TripIds == {trips[i].id : i \in 1..Len(trips)}

IsPrefix(s, t) == Len(s) <= Len(t) /\ \A i \in 1..Len(s) : t[i] = s[i]

SlipPages == {"Loading Slip", "Offloading Slip", "Fuel Slip"}

OnCalculator == ui.page = "Trip Calculator"

(* C1: for every stored trip, calculate_trip_profitability returns None    *)
(* whenever the trip's distance_km is 0 or the tonnage_dropped of its      *)
(* offloading slips sums to 0, whatever the loading slips, fuel slips and  *)
(* truck are; it returns a record only when both are > 0.                  *)
C1_AbsentUnlessBothPositive ==
    \A i \in 1..Len(trips) :
        LET t == trips[i]
            r == calculate_trip_profitability(t.id)
        IN  /\ (t.distance_km = 0 \/ DeliveredFor(t.id) = 0) => r = None
            /\ r # None => (t.distance_km > 0 /\ DeliveredFor(t.id) > 0)

\* the function was applied to a trip with a distance, loading and fuel
\* slips but nothing delivered, and returned None
C1_Witness ==
    /\ result # None
    /\ result.returned = None
    /\ \E i \in 1..Len(trips) :
         /\ trips[i].id = result.trip_id
         /\ trips[i].distance_km > 0
         /\ LoadedFor(trips[i].id) > 0
         /\ FuelCostFor(trips[i].id) > 0
         /\ DeliveredFor(trips[i].id) = 0

(* C2: for every trip id T, the aggregates calculate_trip_profitability    *)
(* uses (tonnage loaded, tonnage delivered, fuel cost) are the sums over   *)
(* exactly the slips whose trip_id is T: a slip of another trip never      *)
(* contributes, and a trip without matching slips gets zero.               *)
C2_AggregatesPerTrip ==
    /\ \A T \in TripIds \cup {<<"trip", 0>>} :
         /\ total_tonnage_loaded(T) = LoadedFor(T)
         /\ total_tonnage_delivered(T) = DeliveredFor(T)
         /\ total_fuel_cost(T) = FuelCostFor(T)
         /\ (\A i \in 1..Len(loading_slips) : loading_slips[i].trip_id # T)
                => total_tonnage_loaded(T) = 0
         /\ (\A i \in 1..Len(offloading_slips) : offloading_slips[i].trip_id # T)
                => total_tonnage_delivered(T) = 0
         /\ (\A i \in 1..Len(fuel_slips) : fuel_slips[i].trip_id # T)
                => total_fuel_cost(T) = 0
    /\ \A i \in 1..Len(loading_slips) : \A T \in TripIds :
         T # loading_slips[i].trip_id =>
            total_tonnage_loaded(T) <=
                SumSeq(TonnagesCollected(loading_slips))
                    - loading_slips[i].tonnage_collected
    /\ \A i \in 1..Len(offloading_slips) : \A T \in TripIds :
         T # offloading_slips[i].trip_id =>
            total_tonnage_delivered(T) <=
                SumSeq(TonnagesDropped(offloading_slips))
                    - offloading_slips[i].tonnage_dropped
    /\ \A i \in 1..Len(fuel_slips) : \A T \in TripIds :
         T # fuel_slips[i].trip_id =>
            total_fuel_cost(T) <=
                SumSeq(TotalCosts(fuel_slips)) - fuel_slips[i].total_cost

\* two trips, one with an offloading slip and one with none, and fuel
\* bought for the other trip
C2_Witness ==
    /\ Len(trips) = 2
    /\ total_tonnage_delivered(trips[1].id) > 0
    /\ total_tonnage_delivered(trips[2].id) = 0
    /\ total_fuel_cost(trips[2].id) > 0
    /\ total_fuel_cost(trips[1].id) = 0

(* C3: every stored slip's trip_id is the id of a stored trip; a slip is   *)
(* saved only against a trip that is Active when it is saved, and never    *)
(* when there is no active trip.                                           *)
SlipTripsExist ==
    /\ \A i \in 1..Len(loading_slips) : loading_slips[i].trip_id \in TripIds
    /\ \A i \in 1..Len(offloading_slips) : offloading_slips[i].trip_id \in TripIds
    /\ \A i \in 1..Len(fuel_slips) : fuel_slips[i].trip_id \in TripIds

SavedAgainstActive(old, new) ==
    new # old =>
        /\ get_active_trips # <<>>
        /\ \A i \in 1..Len(new) :
             (i > Len(old) \/ new[i] # old[i]) =>
                \E j \in 1..Len(trips) :
                    trips[j].id = new[i].trip_id /\ trips[j].status = "Active"

C3_SlipsReferenceActiveTrips ==
    /\ []SlipTripsExist
    /\ [][/\ SavedAgainstActive(loading_slips, loading_slips')
          /\ SavedAgainstActive(offloading_slips, offloading_slips')
          /\ SavedAgainstActive(fuel_slips, fuel_slips')]_vars

\* a slip saved against the second of two trips
C3_Witness ==
    /\ Len(trips) = 2
    /\ loading_slips # <<>>
    /\ \E i \in 1..Len(offloading_slips) : offloading_slips[i].trip_id = trips[2].id

(* C4: every stored fuel slip has total_cost = litres * price_per_litre of *)
(* the same record.                                                        *)
C4_FuelTotalCost ==
    \A i \in 1..Len(fuel_slips) :
        fuel_slips[i].total_cost = fuel_slips[i].litres * fuel_slips[i].price_per_litre

C4_Witness ==
    \E i \in 1..Len(fuel_slips) :
        /\ fuel_slips[i].litres = 2
        /\ fuel_slips[i].price_per_litre = 3
        /\ fuel_slips[i].total_cost = 6

(* C5: a record returned by calculate_trip_profitability has               *)
(* revenue = distance_km * tonnage delivered * rate_per_ton_km,            *)
(* total_cost = distance_km * cost_per_km + fuel cost of the trip's fuel   *)
(* slips, profit = revenue - total_cost, and revenue >= 0.                 *)
C5_ResultFormulas ==
    \A i \in 1..Len(trips) :
        LET t == trips[i]
            r == calculate_trip_profitability(t.id)
        IN  r # None =>
              /\ r.revenue = t.distance_km * DeliveredFor(t.id) * 250
              /\ r.total_cost =
                     t.distance_km * SAMPLE_COST_DATA[t.truck_id].cost_per_km
                     + FuelCostFor(t.id)
              /\ r.profit = r.revenue - r.total_cost
              /\ r.revenue >= 0

\* a record was returned for a trip with fuel slips that cost something
C5_Witness ==
    /\ result # None
    /\ result.returned # None
    /\ result.returned.fuel_cost > 0
    /\ result.returned.total_cost > result.returned.fuel_cost
    /\ result.returned.revenue > 0

(* C6 as claimed: in the trip calculator, breakeven tonnage is not         *)
(* produced when rate_per_ton_km = 0 and, for every input with             *)
(* rate_per_ton_km > 0, is produced and equals cost_per_km / rate.         *)
BreakevenProduced == ui.analysis # None /\ ui.analysis.breakeven_tonnage # None

BreakevenIsQuotient ==
    LET b == ui.analysis.breakeven_tonnage
    IN  /\ b # ZeroDivisionError
        /\ b.den > 0
        /\ b.num * ui.inputs.rate_per_ton_km = ui.inputs.cost_per_km * b.den

C6_Original ==
    OnCalculator =>
        /\ ui.inputs.rate_per_ton_km = 0 => ~BreakevenProduced
        /\ ui.inputs.rate_per_ton_km > 0 => (BreakevenProduced /\ BreakevenIsQuotient)

(* C6 amended: in the trip calculator, breakeven tonnage is produced       *)
(* exactly when distance > 0, tonnage > 0 and rate_per_ton_km > 0, and     *)
(* then equals cost_per_km / rate_per_ton_km; it is not produced when      *)
(* rate_per_ton_km = 0.                                                    *)
C6_Amended ==
    OnCalculator =>
        /\ BreakevenProduced <=>
              (/\ ui.inputs.distance > 0
               /\ ui.inputs.tonnage > 0
               /\ ui.inputs.rate_per_ton_km > 0)
        /\ BreakevenProduced => BreakevenIsQuotient

C6_Witness ==
    /\ OnCalculator
    /\ BreakevenProduced
    /\ ui.inputs.cost_per_km = 694
    /\ ui.analysis.breakeven_tonnage = [num |-> 347, den |-> 125]

(* C7: in the trip calculator, margin is 0 whenever revenue = 0 and is     *)
(* (profit / revenue) * 100 whenever revenue > 0; no input divides by 0.   *)
C7_MarginGuarded ==
    (OnCalculator /\ ui.analysis # None) =>
        LET a == ui.analysis
        IN  /\ a.margin # ZeroDivisionError
            /\ a.breakeven_tonnage # ZeroDivisionError
            /\ a.revenue = 0 => a.margin = [num |-> 0, den |-> 1]
            /\ a.revenue > 0 =>
                 /\ a.margin.den > 0
                 /\ a.margin.num * a.revenue = a.profit * 100 * a.margin.den

\* rate 0 with a distance and a tonnage: revenue 0, margin 0
C7_Witness ==
    /\ OnCalculator
    /\ ui.analysis # None
    /\ ui.inputs.rate_per_ton_km = 0
    /\ ui.analysis.revenue = 0
    /\ ui.analysis.margin = [num |-> 0, den |-> 1]

(* C8: every stored loading slip has tonnage_collected > 0, every stored   *)
(* offloading slip tonnage_dropped > 0, every stored fuel slip litres > 0  *)
(* and price_per_litre >= 0; a save attempt with a zero quantity or a      *)
(* missing required text leaves the four collections unchanged.            *)
StoredQuantitiesPositive ==
    /\ \A i \in 1..Len(loading_slips) : loading_slips[i].tonnage_collected > 0
    /\ \A i \in 1..Len(offloading_slips) : offloading_slips[i].tonnage_dropped > 0
    /\ \A i \in 1..Len(fuel_slips) :
         fuel_slips[i].litres > 0 /\ fuel_slips[i].price_per_litre >= 0

IncompleteForm(u) ==
    /\ u.page \in SlipPages
    /\ u.message # "warning"
    /\ CASE u.page = "Loading Slip" ->
              \/ u.form.tonnage_collected = 0
              \/ u.form.loading_point = ""
              \/ u.form.client = ""
         [] u.page = "Offloading Slip" ->
              \/ u.form.tonnage_dropped = 0
              \/ u.form.drop_point = ""
              \/ u.form.receiver = ""
         [] u.page = "Fuel Slip" ->
              \/ u.form.litres = 0
              \/ u.form.fuel_station = ""

C8_OnlyCompleteSlipsStored ==
    /\ []StoredQuantitiesPositive
    /\ [][IncompleteForm(ui') => UNCHANGED stores]_vars

\* a loading slip with tonnage 0 was refused while slips were stored
C8_Witness ==
    /\ ui.page = "Loading Slip"
    /\ ui.message = "error"
    /\ ui.form.tonnage_collected = 0
    /\ ui.form.loading_point # ""
    /\ ui.form.client # ""
    /\ loading_slips # <<>>
    /\ fuel_slips # <<>>

(* C9: the collections are append-only: a saved slip stays in its          *)
(* collection with every field unchanged and a created trip is never       *)
(* removed, through every operation.                                       *)
C9_AppendOnly ==
    [][/\ IsPrefix(trips, trips')
       /\ IsPrefix(loading_slips, loading_slips')
       /\ IsPrefix(offloading_slips, offloading_slips')
       /\ IsPrefix(fuel_slips, fuel_slips')]_vars

\* the store after two trips and two slips of one kind
C9_Witness ==
    /\ Len(trips) = 2
    /\ Len(offloading_slips) = 2
    /\ ui.page = "View Slips"

(* C10: no operation changes a trip's distance_km, status, total_cost,     *)
(* revenue or profit from what create_trip set (0, Active, 0, 0, 0), so    *)
(* calculate_trip_profitability returns None for every stored trip however *)
(* many slips it has, and the dashboard's total profit is 0.               *)
C10_NeverComputable ==
    /\ \A i \in 1..Len(trips) :
         /\ trips[i].distance_km = 0
         /\ trips[i].status = "Active"
         /\ trips[i].total_cost = 0
         /\ trips[i].revenue = 0
         /\ trips[i].profit = 0
         /\ calculate_trip_profitability(trips[i].id) = None
    /\ DashboardView.total_profit = 0
    /\ ui.page = "Dashboard" => ui.total_profit = 0

\* the dashboard shown for a trip that has delivered tonnage and fuel
C10_Witness ==
    /\ ui.page = "Dashboard"
    /\ ui.active_trips > 0
    /\ DeliveredFor(trips[1].id) > 0
    /\ FuelCostFor(trips[1].id) > 0

====
